---- MODULE Spec2Model ----
(***************************************************************************)
(* Model of networks.py: the construction functions that assemble U-Net    *)
(* and ResNet generators and PatchGAN / PixelGAN discriminators.           *)
(*                                                                         *)
(* A tensor is its shape [h, w, c].  A graph is the sequence of layer      *)
(* applications in the order the code makes them; every entry carries the  *)
(* source line of the call, the layer's constructor arguments, and the     *)
(* shapes of its operands and of its result.  A builder runs until it      *)
(* returns or until an exception is raised; the layers applied up to that  *)
(* point stay recorded.                                                    *)
(*                                                                         *)
(* Layer shape rules (the framework's, as the call sites use them):        *)
(*   Conv2D padding='same', strides=(s,s)      : ceil(n / s)               *)
(*   Conv2D padding='valid', kernel k          : n - k + 1                 *)
(*   Conv2DTranspose padding='same', strides s : n * s                     *)
(*   ZeroPadding2D((top, bottom, left, right)) : n + both pads             *)
(*   concatenate / Add                         : operands must agree       *)
(***************************************************************************)
EXTENDS Integers, Sequences, FiniteSets, TLC

\* ------------------------------------------------------------------ bounds
MaxLevels == 4
MaxBlocks == 3
MaxLayers == 3

\* ------------------------------------------------------- program constants
DefaultDropoutRate == 50
LeakyAlpha == 20
UnetKernel == 4
ResnetOuterKernel == 7
ResnetKernel == 3
DiscKernel == 4
n_downsamples == 2

\* ------------------------------------------------------------ input domains
RECURSIVE Pow2(_)
Pow2(n) == IF n <= 0 THEN 1 ELSE 2 * Pow2(n - 1)

NormNames == {"batch", "instance", "group"}
ModelNames == {"unet_128", "unet_256", "resnet_6blocks", "resnet_9blocks", "unet_64"}
PaddingNames == {"zero", "reflect"}
DataFormats == {"channels_first", "channels_last"}
PatchSides == {Pow2(k) : k \in 2..MaxLevels} \cup {128}
PatchSizes == {<<s, s>> : s \in PatchSides} \cup {<<8, 4>>, <<4, 6>>}
\* Whether keras_contrib can be imported only matters for 'instance'.
ContribInstalled(layer_name) == IF layer_name = "instance" THEN BOOLEAN ELSE {TRUE}
Channels == {1, 3}
FilterCounts == {1, 2}
LevelCounts == (2..MaxLevels) \cup {7}
BlockCounts == 0..MaxBlocks
LayerCounts == (-1)..MaxLayers

\* ------------------------------------------------------------------ helpers
Max(a, b) == IF a >= b THEN a ELSE b
Min(a, b) == IF a <= b THEN a ELSE b
CeilDiv(a, b) == (a + b - 1) \div b
FloorDiv(a, b) == a \div b

NoShape == [h |-> 0, w |-> 0, c |-> 0]

\* A value a Python name can hold while a graph is built: a symbolic tensor
\* or a layer object that has not been applied to anything.
Tensor(shape) == [kind |-> "tensor", shape |-> shape]
LayerObject == [kind |-> "layer", shape |-> NoShape]

\* backend.image_data_format() decides where the channel count sits in the
\* shape tuple handed to Input.
input_shape(patch_size, input_nc, fmt) ==
    IF fmt = "channels_first"
    THEN <<input_nc, patch_size[1], patch_size[2]>>
    ELSE <<patch_size[1], patch_size[2], input_nc>>

channel_axis(fmt) == IF fmt = "channels_first" THEN 1 ELSE -1

ShapeOfInput(shape_tuple, fmt) ==
    IF fmt = "channels_first"
    THEN [h |-> shape_tuple[2], w |-> shape_tuple[3], c |-> shape_tuple[1]]
    ELSE [h |-> shape_tuple[1], w |-> shape_tuple[2], c |-> shape_tuple[3]]

\* One applied layer.
LayerRec(line, layer, filters, kernel, strides, padding, use_bias, activation, rate, axis, inp, inp2, out) ==
    [line |-> line, layer |-> layer, filters |-> filters, kernel |-> kernel,
     strides |-> strides, padding |-> padding, use_bias |-> use_bias,
     activation |-> activation, rate |-> rate, axis |-> axis,
     inp |-> inp, inp2 |-> inp2, out |-> out]

\* Builder state: layers applied so far, the tensor last produced, the
\* encoder nodes kept for skip connections, and the pending exception.
\* Once an exception is pending no further statement has any effect, so the
\* loops below stop at it.
NewBuild == [layers |-> <<>>, cur |-> NoShape, nodes |-> <<>>,
             err |-> "", errline |-> 0]

Raise(st, exc, line) ==
    IF st.err # "" THEN st ELSE [st EXCEPT !.err = exc, !.errline = line]

Apply(st, rec) ==
    IF st.err # "" THEN st
    ELSE [st EXCEPT !.layers = Append(@, rec), !.cur = rec.out]

\* ------------------------------------------------------- layer applications
Input(st, line, shape_tuple, fmt) ==
    Apply(st, LayerRec(line, "Input", 0, 0, 1, "", FALSE, "None", 0, 0,
                       NoShape, NoShape, ShapeOfInput(shape_tuple, fmt)))

ConvOut(x, filters, kernel, strides, padding) ==
    IF padding = "same"
    THEN [h |-> CeilDiv(x.h, strides), w |-> CeilDiv(x.w, strides), c |-> filters]
    ELSE [h |-> x.h - kernel + 1, w |-> x.w - kernel + 1, c |-> filters]

Conv2D(st, line, filters, kernel, strides, padding, use_bias, activation, x) ==
    IF x.kind # "tensor" THEN Raise(st, "ValueError", line)
    ELSE Apply(st, LayerRec(line, "Conv2D", filters, kernel, strides, padding,
                            use_bias, activation, 0, 0, x.shape, NoShape,
                            ConvOut(x.shape, filters, kernel, strides, padding)))

Conv2DTranspose(st, line, filters, kernel, strides, use_bias, x) ==
    IF x.kind # "tensor" THEN Raise(st, "ValueError", line)
    ELSE Apply(st, LayerRec(line, "Conv2DTranspose", filters, kernel, strides,
                            "same", use_bias, "None", 0, 0, x.shape, NoShape,
                            [h |-> x.shape.h * strides, w |-> x.shape.w * strides,
                             c |-> filters]))

\* norm_layer(axis=channel_axis)(x): norm_layer is whatever get_norm_layer
\* returned; only a layer class can be called.
Normalize(st, line, norm_layer, axis, x) ==
    IF norm_layer \notin {"BatchNormalization", "InstanceNormalization"}
    THEN Raise(st, "TypeError", line)
    ELSE IF x.kind # "tensor" THEN Raise(st, "ValueError", line)
    ELSE Apply(st, LayerRec(line, norm_layer, 0, 0, 1, "", FALSE, "None", 0,
                            axis, x.shape, NoShape, x.shape))

LeakyReLU(st, line, x) ==
    IF x.kind # "tensor" THEN Raise(st, "ValueError", line)
    ELSE Apply(st, LayerRec(line, "LeakyReLU", 0, 0, 1, "", FALSE, "None",
                            LeakyAlpha, 0, x.shape, NoShape, x.shape))

Activation(st, line, name, x) ==
    IF x.kind # "tensor" THEN Raise(st, "ValueError", line)
    ELSE Apply(st, LayerRec(line, "Activation", 0, 0, 1, "", FALSE, name, 0, 0,
                            x.shape, NoShape, x.shape))

Dropout(st, line, rate, x) ==
    IF x.kind # "tensor" THEN Raise(st, "ValueError", line)
    ELSE Apply(st, LayerRec(line, "Dropout", 0, 0, 1, "", FALSE, "None", rate,
                            0, x.shape, NoShape, x.shape))

\* padding = <<top, bottom, left, right>>
ZeroPadding2D(st, line, padding, x) ==
    IF x.kind # "tensor" THEN Raise(st, "ValueError", line)
    ELSE Apply(st, LayerRec(line, "ZeroPadding2D", 0, 0, 1, "", FALSE, "None",
                            0, 0, x.shape, NoShape,
                            [h |-> x.shape.h + padding[1] + padding[2],
                             w |-> x.shape.w + padding[3] + padding[4],
                             c |-> x.shape.c]))

\* concatenate([a, b], axis=channel_axis)
Concatenate(st, line, axis, a, b) ==
    IF a.h # b.h \/ a.w # b.w THEN Raise(st, "ValueError", line)
    ELSE Apply(st, LayerRec(line, "Concatenate", 0, 0, 1, "", FALSE, "None", 0,
                            axis, a, b, [h |-> a.h, w |-> a.w, c |-> a.c + b.c]))

\* Add()([a, b])
Add(st, line, a, b) ==
    IF a # b THEN Raise(st, "ValueError", line)
    ELSE Apply(st, LayerRec(line, "Add", 0, 0, 1, "", FALSE, "None", 0, 0,
                            a, b, a))

\* ------------------------------------------------------------ return values
NoCall == [fn |-> "", patch_size |-> <<0, 0>>, input_nc |-> 0, output_nc |-> 0,
           init_num_filters |-> 0, norm_layer |-> "", use_dropout |-> FALSE,
           n_levels |-> 0, n_blocks |-> 0]

Returned(value, st) ==
    [outcome |-> "return", value |-> value, layers |-> st.layers,
     output |-> st.cur, line |-> 0, callee |-> NoCall]

Raised(exc, line, st) ==
    [outcome |-> "raise", value |-> exc, layers |-> st.layers,
     output |-> NoShape, line |-> line, callee |-> NoCall]

\* Model(inputs=..., outputs=...) as the last statement of a builder.
Finish(st) ==
    IF st.err # "" THEN Raised(st.err, st.errline, st) ELSE Returned("Model", st)

\* ----------------------------------------------------------- get_norm_layer
get_norm_layer(layer_name, contrib) ==
    IF layer_name = "batch" THEN Returned("BatchNormalization", NewBuild)
    ELSE IF layer_name = "instance"
    THEN IF contrib THEN Returned("InstanceNormalization", NewBuild)
         ELSE Raised("ImportError", 20, NewBuild)
    ELSE Returned("NotImplementedError", NewBuild)

\* ------------------------------------------------------------- build_unet
\* Filter multipliers, as written in the source.
UnetLevelFilters(init_num_filters, i) == init_num_filters * Max(Pow2(i), 8)
UnetBottleneckFilters(init_num_filters, n_levels) ==
    init_num_filters * Max(Pow2(n_levels) - 1, 8)
UnetFirstDeconvFilters(init_num_filters, n_levels) ==
    init_num_filters * Max(Pow2(n_levels) - 2, 8)

\* range(1, n_levels - 1): the last index the encoder and decoder loops visit.
UnetLoopLastOffByOne(n_levels) == n_levels - 1
UnetLoopLast(n_levels) == n_levels - 2

\* concatenate(norm, [nodes_for_concat[i]], axis=channel_axis): the list is
\* bound to the second positional parameter, axis, which the keyword then
\* names again, so the call itself fails.
concatenate_positional(st, line) == Raise(st, "TypeError", line)

RECURSIVE UnetEncoder(_, _, _)
UnetEncoder(st, i, p) ==
    IF i > UnetLoopLast(p.n_levels) \/ st.err # "" THEN st
    ELSE LET relu == LeakyReLU(st, 78, Tensor(st.cur))
             conv == Conv2D(relu, 79, UnetLevelFilters(p.init_num_filters, i),
                            UnetKernel, 2, "same", p.use_bias, "None",
                            Tensor(relu.cur))
             prev == Normalize(conv, 81, p.norm_layer, p.axis, Tensor(conv.cur))
             kept == IF prev.err # "" THEN prev
                     ELSE [prev EXCEPT !.nodes = Append(@, prev.cur)]
         IN  UnetEncoder(kept, i + 1, p)

RECURSIVE UnetDecoder(_, _, _)
UnetDecoder(st, i, p) ==
    IF i < 1 \/ st.err # "" THEN st
    ELSE LET norm == Normalize(st, 92, p.norm_layer, p.axis, Tensor(st.cur))
             drop == IF p.use_dropout
                     THEN Dropout(norm, 94, p.dropout_rate, Tensor(norm.cur))
                     ELSE norm
             cat  == IF ~p.autoencoder THEN concatenate_positional(drop, 96)
                     ELSE drop
             relu == Activation(cat, 97, "relu", Tensor(cat.cur))
             deconv == Conv2DTranspose(relu, 98,
                                       UnetLevelFilters(p.init_num_filters, i),
                                       UnetKernel, 2, p.use_bias, Tensor(relu.cur))
         IN  UnetDecoder(deconv, i - 1, p)

\* The outermost layer of the decoder (line 105).
UnetOuterLayer(st, output_nc, p) ==
    Conv2D(st, 105, output_nc, UnetKernel, 2, "same", p.use_bias, "None",
           Tensor(st.cur))

build_unet(patch_size, input_nc, output_nc, init_num_filters, norm_layer, n_levels, use_dropout, dropout_rate, autoencoder, fmt, contrib) ==
    LET got == get_norm_layer(norm_layer, contrib)
        p == [init_num_filters |-> init_num_filters,
              use_bias |-> (norm_layer = "instance"),
              norm_layer |-> got.value, axis |-> channel_axis(fmt),
              n_levels |-> n_levels, use_dropout |-> use_dropout,
              dropout_rate |-> dropout_rate, autoencoder |-> autoencoder]
        input_img == Input(NewBuild, 73, input_shape(patch_size, input_nc, fmt), fmt)
        first == Conv2D(input_img, 74, init_num_filters, UnetKernel, 2, "same",
                        p.use_bias, "None", Tensor(input_img.cur))
        kept == [first EXCEPT !.nodes = Append(@, first.cur)]
        enc == UnetEncoder(kept, 1, p)
        relu1 == LeakyReLU(enc, 84, Tensor(enc.cur))
        conv1 == Conv2D(relu1, 85, UnetBottleneckFilters(init_num_filters, n_levels),
                        UnetKernel, 2, "same", p.use_bias, "None", Tensor(relu1.cur))
        relu2 == Activation(conv1, 87, "relu", Tensor(conv1.cur))
        deconv == Conv2DTranspose(relu2, 88,
                                  UnetFirstDeconvFilters(init_num_filters, n_levels),
                                  UnetKernel, 2, p.use_bias, Tensor(relu2.cur))
        dec == UnetDecoder(deconv, UnetLoopLast(n_levels), p)
        norm == Normalize(dec, 101, p.norm_layer, p.axis, Tensor(dec.cur))
        cat == IF ~autoencoder /\ norm.err = ""
               THEN Concatenate(norm, 103, p.axis, norm.cur, norm.nodes[1])
               ELSE norm
        relu3 == Activation(cat, 104, "relu", Tensor(cat.cur))
        conv2 == UnetOuterLayer(relu3, output_nc, p)
        act == Activation(conv2, 106, "tanh", Tensor(conv2.cur))
    IN  IF got.outcome = "raise" THEN got ELSE Finish(act)

\* ----------------------------------------------------------- build_resnet
outer_padding_size ==
    <<CeilDiv(ResnetOuterKernel - 1, 2), FloorDiv(ResnetOuterKernel - 1, 2),
      CeilDiv(ResnetOuterKernel - 1, 2), FloorDiv(ResnetOuterKernel - 1, 2)>>

\* if use_dropout: act = Dropout(dropout_rate) binds act to the layer object
\* itself; it is never applied to the activation tensor.
ConvBlockActValue(st, use_dropout) ==
    IF use_dropout THEN LayerObject ELSE Tensor(st.cur)

build_conv_block(st, previous, num_filters, p) ==
    LET pad1 == ZeroPadding2D(st, 162, <<1, 1, 1, 1>>, previous)
        conv1 == Conv2D(pad1, 163, num_filters, ResnetKernel, 1, "valid",
                        p.use_bias, "None", Tensor(pad1.cur))
        norm1 == Normalize(conv1, 164, p.norm_layer, p.axis, Tensor(conv1.cur))
        act == Activation(norm1, 165, "relu", Tensor(norm1.cur))
        pad2 == ZeroPadding2D(act, 170, <<1, 1, 1, 1>>,
                              ConvBlockActValue(act, p.use_dropout))
        conv2 == Conv2D(pad2, 171, num_filters, ResnetKernel, 1, "valid",
                        p.use_bias, "None", Tensor(pad2.cur))
        norm2 == Normalize(conv2, 172, p.norm_layer, p.axis, Tensor(conv2.cur))
    IN  IF norm2.err # "" THEN norm2
        ELSE Add(norm2, 174, previous.shape, norm2.cur)

RECURSIVE ResnetDownsample(_, _, _)
ResnetDownsample(st, i, p) ==
    IF i >= n_downsamples \/ st.err # "" THEN st
    ELSE LET conv == Conv2D(st, 138, p.init_num_filters * Pow2(i + 1),
                            ResnetKernel, 2, "same", TRUE, "None", Tensor(st.cur))
             norm == Normalize(conv, 139, p.norm_layer, p.axis, Tensor(conv.cur))
             act == Activation(norm, 140, "relu", Tensor(norm.cur))
         IN  ResnetDownsample(act, i + 1, p)

RECURSIVE ResnetBlocks(_, _, _)
ResnetBlocks(st, i, p) ==
    IF i >= p.n_blocks \/ st.err # "" THEN st
    ELSE ResnetBlocks(build_conv_block(st, Tensor(st.cur),
                                       p.init_num_filters * Pow2(n_downsamples), p),
                      i + 1, p)

\* for i in reversed(range(n_blocks)): the number of upsampling steps.
ResnetUpsampleCount(n_blocks) == n_blocks

RECURSIVE ResnetUpsample(_, _, _)
ResnetUpsample(st, i, p) ==
    IF i < 0 \/ st.err # "" THEN st
    ELSE LET conv == Conv2DTranspose(st, 147, p.init_num_filters * Pow2(i + 1),
                                     ResnetKernel, 2, TRUE, Tensor(st.cur))
             norm == Normalize(conv, 148, p.norm_layer, p.axis, Tensor(conv.cur))
             act == Activation(norm, 149, "relu", Tensor(norm.cur))
         IN  ResnetUpsample(act, i - 1, p)

build_resnet(patch_size, input_nc, output_nc, init_num_filters, norm_layer, padding_layer, n_blocks, use_dropout, dropout_rate, fmt, contrib) ==
    LET got == get_norm_layer(norm_layer, contrib)
        p == [init_num_filters |-> init_num_filters,
              use_bias |-> (norm_layer = "instance"),
              norm_layer |-> got.value, axis |-> channel_axis(fmt),
              n_blocks |-> n_blocks, use_dropout |-> use_dropout,
              dropout_rate |-> dropout_rate]
        input_img == Input(NewBuild, 130, input_shape(patch_size, input_nc, fmt), fmt)
        pad1 == ZeroPadding2D(input_img, 131, outer_padding_size, Tensor(input_img.cur))
        conv1 == Conv2D(pad1, 132, init_num_filters, ResnetOuterKernel, 1, "valid",
                        p.use_bias, "None", Tensor(pad1.cur))
        norm1 == Normalize(conv1, 133, p.norm_layer, p.axis, Tensor(conv1.cur))
        act1 == Activation(norm1, 134, "relu", Tensor(norm1.cur))
        down == ResnetDownsample(act1, 0, p)
        blocks == ResnetBlocks(down, 0, p)
        up == ResnetUpsample(blocks, ResnetUpsampleCount(n_blocks) - 1, p)
        pad2 == ZeroPadding2D(up, 151, outer_padding_size, Tensor(up.cur))
        conv2 == Conv2D(pad2, 152, output_nc, ResnetOuterKernel, 1, "valid",
                        p.use_bias, "None", Tensor(pad2.cur))
        act2 == Activation(conv2, 153, "tanh", Tensor(conv2.cur))
    IN  IF got.outcome = "raise" THEN got
        ELSE IF padding_layer # "zero"
        THEN Returned("NotImplementedError", NewBuild)
        ELSE Finish(act2)

\* ------------------------------------------- build_nlayer_discriminator
\* How a Python bool reads when it is passed where an activation name is
\* expected.
PyBool(b) == IF b THEN "True" ELSE "False"

\* model.add(layer) on a Sequential model: the layer is applied to the
\* output of the layer added before it.
build_pixel_gan(shape_tuple, init_num_filters, norm_layer, axis, use_bias, final_activation, fmt) ==
    LET m1 == Input(NewBuild, 179, shape_tuple, fmt)
        m2 == Conv2D(m1, 180, init_num_filters, 1, 1, "same", use_bias, "None",
                     Tensor(m1.cur))
        m3 == LeakyReLU(m2, 181, Tensor(m2.cur))
        m4 == Conv2D(m3, 182, init_num_filters * 2, 1, 1, "same", use_bias,
                     "None", Tensor(m3.cur))
        m5 == Normalize(m4, 183, norm_layer, axis, Tensor(m4.cur))
        m6 == LeakyReLU(m5, 184, Tensor(m5.cur))
        m7 == Conv2D(m6, 185, init_num_filters * 2, 1, 1, "same", use_bias,
                     final_activation, Tensor(m6.cur))
    IN  Finish(m7)

\* range(1, n_layers): the last index the loop visits.
DiscLoopLast(n_layers) == n_layers - 1

RECURSIVE DiscInner(_, _, _)
DiscInner(st, n, p) ==
    IF n > DiscLoopLast(p.n_layers) \/ st.err # "" THEN st
    ELSE LET conv == Conv2D(st, 211, p.init_num_filters * Min(Pow2(n), 8),
                            DiscKernel, 2, "same", p.use_bias, "None",
                            Tensor(st.cur))
             norm == Normalize(conv, 213, p.norm_layer, p.axis, Tensor(conv.cur))
             drop == IF p.use_dropout
                     THEN Dropout(norm, 215, p.dropout_rate, Tensor(norm.cur))
                     ELSE norm
             relu == LeakyReLU(drop, 216, Tensor(drop.cur))
         IN  DiscInner(relu, n + 1, p)

build_nlayer_discriminator(patch_size, input_nc, init_num_filters, n_layers, norm_layer, use_sigmoid, use_dropout, dropout_rate, fmt, contrib) ==
    LET got == get_norm_layer(norm_layer, contrib)
        final_activation == IF use_sigmoid THEN "sigmoid" ELSE "None"
        p == [init_num_filters |-> init_num_filters,
              use_bias |-> (norm_layer = "instance"),
              norm_layer |-> got.value, axis |-> channel_axis(fmt),
              n_layers |-> n_layers, use_dropout |-> use_dropout,
              dropout_rate |-> dropout_rate]
        m1 == Input(NewBuild, 206, input_shape(patch_size, input_nc, fmt), fmt)
        m2 == Conv2D(m1, 207, init_num_filters, DiscKernel, 2, "same",
                     p.use_bias, "None", Tensor(m1.cur))
        m3 == LeakyReLU(m2, 208, Tensor(m2.cur))
        \* n_layers == -1 rebinds n_layers to np.log2(patch_size[0]), a float,
        \* which range() does not accept.
        m4 == IF n_layers = -1 THEN Raise(m3, "TypeError", 210)
              ELSE DiscInner(m3, 1, p)
        m5 == Conv2D(m4, 218, init_num_filters * Min(Pow2(n_layers), 8),
                     DiscKernel, 1, "same", p.use_bias, "None", Tensor(m4.cur))
        m6 == Normalize(m5, 220, p.norm_layer, p.axis, Tensor(m5.cur))
        m7 == LeakyReLU(m6, 221, Tensor(m6.cur))
        m8 == Conv2D(m7, 222, 1, DiscKernel, 1, "same", TRUE, final_activation,
                     Tensor(m7.cur))
    IN  IF got.outcome = "raise" THEN got
        ELSE IF n_layers = 0
        THEN build_pixel_gan(input_shape(patch_size, input_nc, fmt),
                             init_num_filters, p.norm_layer, p.axis, p.use_bias,
                             PyBool(use_sigmoid), fmt)
        ELSE Finish(m8)

build_discriminator_model(patch_size, input_nc, init_num_filters, n_layers, norm_layer, use_sigmoid, fmt, contrib) ==
    build_nlayer_discriminator(patch_size, input_nc, init_num_filters, n_layers,
                               norm_layer, use_sigmoid, FALSE,
                               DefaultDropoutRate, fmt, contrib)

\* ---------------------------------------------------- build_generator_model
GenDispatchSwapped(model_name) ==
    IF model_name = "unet_128"
    THEN [fn |-> "build_unet", n_levels |-> 8, n_blocks |-> 0]
    ELSE IF model_name = "unet_256"
    THEN [fn |-> "build_unet", n_levels |-> 7, n_blocks |-> 0]
    ELSE IF model_name = "resnet_6blocks"
    THEN [fn |-> "build_resnet", n_levels |-> 0, n_blocks |-> 6]
    ELSE IF model_name = "resnet_9blocks"
    THEN [fn |-> "build_resnet", n_levels |-> 0, n_blocks |-> 9]
    ELSE [fn |-> "", n_levels |-> 0, n_blocks |-> 0]

\* The if / elif chain on model_name: which builder is called, and with
\* which depth.
GenDispatch(model_name) ==
    IF model_name = "unet_128"
    THEN [fn |-> "build_unet", n_levels |-> 7, n_blocks |-> 0]
    ELSE IF model_name = "unet_256"
    THEN [fn |-> "build_unet", n_levels |-> 8, n_blocks |-> 0]
    ELSE IF model_name = "resnet_6blocks"
    THEN [fn |-> "build_resnet", n_levels |-> 0, n_blocks |-> 6]
    ELSE IF model_name = "resnet_9blocks"
    THEN [fn |-> "build_resnet", n_levels |-> 0, n_blocks |-> 9]
    ELSE [fn |-> "", n_levels |-> 0, n_blocks |-> 0]

build_generator_model(patch_size, input_nc, output_nc, init_num_filters, model_name, norm_layer, use_dropout, fmt, contrib) ==
    LET d == GenDispatch(model_name)
        call == [fn |-> d.fn, patch_size |-> patch_size, input_nc |-> input_nc,
                 output_nc |-> output_nc, init_num_filters |-> init_num_filters,
                 norm_layer |-> norm_layer, use_dropout |-> use_dropout,
                 n_levels |-> d.n_levels, n_blocks |-> d.n_blocks]
    IN  IF d.fn = "build_unet"
        THEN [build_unet(call.patch_size, call.input_nc, call.output_nc,
                         call.init_num_filters, call.norm_layer, call.n_levels,
                         call.use_dropout, DefaultDropoutRate, TRUE, fmt, contrib)
              EXCEPT !.callee = call]
        ELSE IF d.fn = "build_resnet"
        THEN [build_resnet(call.patch_size, call.input_nc, call.output_nc,
                           call.init_num_filters, call.norm_layer, "zero",
                           call.n_blocks, call.use_dropout, DefaultDropoutRate,
                           fmt, contrib)
              EXCEPT !.callee = call]
        ELSE Raised("NotImplementedError", 43, NewBuild)

\* ------------------------------------------------------------ state machine
VARIABLES pc, fn, args, result
vars == <<pc, fn, args, result>>

NoArgs == [patch_size |-> <<0, 0>>, input_nc |-> 0, output_nc |-> 0,
           init_num_filters |-> 0, model_name |-> "", norm_layer |-> "",
           n_levels |-> 0, n_blocks |-> 0, n_layers |-> 0,
           use_dropout |-> FALSE, use_sigmoid |-> FALSE, autoencoder |-> FALSE,
           padding_layer |-> "", fmt |-> "", contrib |-> FALSE]

NoResult == [outcome |-> "", value |-> "", layers |-> <<>>, output |-> NoShape,
             line |-> 0, callee |-> NoCall]

Init ==
    /\ pc = "idle"
    /\ fn = ""
    /\ args = NoArgs
    /\ result = NoResult

\* The call of get_norm_layer ends: with the value it returns or the
\* exception it raises.
GetNormLayerEnds(a, r) ==
    /\ pc = "idle"
    /\ pc' = "done"
    /\ fn' = "get_norm_layer"
    /\ args' = a
    /\ result' = r

CallGetNormLayer ==
    \E layer_name \in NormNames :
    \E contrib \in ContribInstalled(layer_name) :
        GetNormLayerEnds([NoArgs EXCEPT !.norm_layer = layer_name, !.contrib = contrib],
                         get_norm_layer(layer_name, contrib))

\* The call of build_generator_model ends: with the value it returns or the
\* exception it raises.
BuildGeneratorModelEnds(a, r) ==
    /\ pc = "idle"
    /\ pc' = "done"
    /\ fn' = "build_generator_model"
    /\ args' = a
    /\ result' = r

CallBuildGeneratorModel ==
    \E patch_size \in PatchSizes, input_nc \in Channels, output_nc \in Channels,
       init_num_filters \in FilterCounts, model_name \in ModelNames,
       norm_layer \in NormNames, use_dropout \in BOOLEAN,
       fmt \in DataFormats :
    \E contrib \in ContribInstalled(norm_layer) :
        BuildGeneratorModelEnds([NoArgs EXCEPT !.patch_size = patch_size, !.input_nc = input_nc,
                                !.output_nc = output_nc,
                                !.init_num_filters = init_num_filters,
                                !.model_name = model_name,
                                !.norm_layer = norm_layer,
                                !.use_dropout = use_dropout,
                                !.fmt = fmt, !.contrib = contrib],
                                build_generator_model(patch_size, input_nc, output_nc,
                                    init_num_filters, model_name, norm_layer,
                                    use_dropout, fmt, contrib))

\* The call of build_discriminator_model ends: with the value it returns or the
\* exception it raises.
BuildDiscriminatorModelEnds(a, r) ==
    /\ pc = "idle"
    /\ pc' = "done"
    /\ fn' = "build_discriminator_model"
    /\ args' = a
    /\ result' = r

CallBuildDiscriminatorModel ==
    \E patch_size \in PatchSizes, input_nc \in Channels,
       init_num_filters \in FilterCounts, n_layers \in LayerCounts,
       norm_layer \in NormNames, use_sigmoid \in BOOLEAN,
       fmt \in DataFormats :
    \E contrib \in ContribInstalled(norm_layer) :
        BuildDiscriminatorModelEnds([NoArgs EXCEPT !.patch_size = patch_size, !.input_nc = input_nc,
                                    !.init_num_filters = init_num_filters,
                                    !.n_layers = n_layers, !.norm_layer = norm_layer,
                                    !.use_sigmoid = use_sigmoid,
                                    !.fmt = fmt, !.contrib = contrib],
                                    build_discriminator_model(patch_size, input_nc, init_num_filters,
                                        n_layers, norm_layer, use_sigmoid,
                                        fmt, contrib))

\* The call of build_unet ends: with the value it returns or the
\* exception it raises.
BuildUnetEnds(a, r) ==
    /\ pc = "idle"
    /\ pc' = "done"
    /\ fn' = "build_unet"
    /\ args' = a
    /\ result' = r

CallBuildUnet ==
    \E patch_size \in PatchSizes, input_nc \in Channels, output_nc \in Channels,
       init_num_filters \in FilterCounts, norm_layer \in NormNames,
       n_levels \in LevelCounts, use_dropout \in BOOLEAN, autoencoder \in BOOLEAN,
       fmt \in DataFormats :
    \E contrib \in ContribInstalled(norm_layer) :
        BuildUnetEnds([NoArgs EXCEPT !.patch_size = patch_size, !.input_nc = input_nc,
                      !.output_nc = output_nc,
                      !.init_num_filters = init_num_filters,
                      !.norm_layer = norm_layer, !.n_levels = n_levels,
                      !.use_dropout = use_dropout,
                      !.autoencoder = autoencoder,
                      !.fmt = fmt, !.contrib = contrib],
                      build_unet(patch_size, input_nc, output_nc, init_num_filters,
                          norm_layer, n_levels, use_dropout, DefaultDropoutRate,
                          autoencoder, fmt, contrib))

\* The call of build_resnet ends: with the value it returns or the
\* exception it raises.
BuildResnetEnds(a, r) ==
    /\ pc = "idle"
    /\ pc' = "done"
    /\ fn' = "build_resnet"
    /\ args' = a
    /\ result' = r

CallBuildResnet ==
    \E patch_size \in PatchSizes, input_nc \in Channels, output_nc \in Channels,
       init_num_filters \in FilterCounts, norm_layer \in NormNames,
       padding_layer \in PaddingNames, n_blocks \in BlockCounts,
       use_dropout \in BOOLEAN, fmt \in DataFormats :
    \E contrib \in ContribInstalled(norm_layer) :
        BuildResnetEnds([NoArgs EXCEPT !.patch_size = patch_size, !.input_nc = input_nc,
                        !.output_nc = output_nc,
                        !.init_num_filters = init_num_filters,
                        !.norm_layer = norm_layer,
                        !.padding_layer = padding_layer,
                        !.n_blocks = n_blocks,
                        !.use_dropout = use_dropout,
                        !.fmt = fmt, !.contrib = contrib],
                        build_resnet(patch_size, input_nc, output_nc, init_num_filters,
                            norm_layer, padding_layer, n_blocks, use_dropout,
                            DefaultDropoutRate, fmt, contrib))

\* The call of build_nlayer_discriminator ends: with the value it returns or the
\* exception it raises.
BuildNlayerDiscriminatorEnds(a, r) ==
    /\ pc = "idle"
    /\ pc' = "done"
    /\ fn' = "build_nlayer_discriminator"
    /\ args' = a
    /\ result' = r

CallBuildNlayerDiscriminator ==
    \E patch_size \in PatchSizes, input_nc \in Channels,
       init_num_filters \in FilterCounts, n_layers \in LayerCounts,
       norm_layer \in NormNames, use_sigmoid \in BOOLEAN, use_dropout \in BOOLEAN,
       fmt \in DataFormats :
    \E contrib \in ContribInstalled(norm_layer) :
        BuildNlayerDiscriminatorEnds([NoArgs EXCEPT !.patch_size = patch_size, !.input_nc = input_nc,
                                     !.init_num_filters = init_num_filters,
                                     !.n_layers = n_layers, !.norm_layer = norm_layer,
                                     !.use_sigmoid = use_sigmoid,
                                     !.use_dropout = use_dropout,
                                     !.fmt = fmt, !.contrib = contrib],
                                     build_nlayer_discriminator(patch_size, input_nc, init_num_filters,
                                         n_layers, norm_layer, use_sigmoid,
                                         use_dropout, DefaultDropoutRate,
                                         fmt, contrib))

Next ==
    \/ CallGetNormLayer
    \/ CallBuildGeneratorModel
    \/ CallBuildDiscriminatorModel
    \/ CallBuildUnet
    \/ CallBuildResnet
    \/ CallBuildNlayerDiscriminator

Spec == Init /\ [][Next]_vars

\* ------------------------------------------------- reading a finished call
Done == pc = "done"

Generators == {"build_generator_model", "build_unet", "build_resnet"}
Discriminators == {"build_discriminator_model", "build_nlayer_discriminator"}
Constructors == Generators \cup Discriminators

\* The builder the call ended up in, and the depth it ran with.
IsUnet == \/ fn = "build_unet"
          \/ fn = "build_generator_model" /\ result.callee.fn = "build_unet"
IsResnet == \/ fn = "build_resnet"
            \/ fn = "build_generator_model" /\ result.callee.fn = "build_resnet"
LevelsUsed == IF fn = "build_unet" THEN args.n_levels ELSE result.callee.n_levels
BlocksUsed == IF fn = "build_resnet" THEN args.n_blocks ELSE result.callee.n_blocks
AutoencoderUsed == IF fn = "build_unet" THEN args.autoencoder ELSE TRUE
PaddingUsed == IF fn = "build_resnet" THEN args.padding_layer ELSE "zero"

NormAvailable == \/ args.norm_layer = "batch"
                 \/ args.norm_layer = "instance" /\ args.contrib
ReturnedModel == result.outcome = "return" /\ result.value = "Model"

Indices(layers, Test(_)) == {i \in 1..Len(layers) : Test(layers[i])}
Count(layers, Test(_)) == Cardinality(Indices(layers, Test))

IsDown(l) == l.layer = "Conv2D" /\ l.strides = 2
IsUp(l) == l.layer = "Conv2DTranspose" /\ l.strides = 2
IsDropout(l) == l.layer = "Dropout"
IsConcat(l) == l.layer = "Concatenate"
IsAdd(l) == l.layer = "Add"
IsBottleneck(l) == l.line = 85
IsSkipNode(l) == l.line = 74 \/ l.line = 81

Divides(d, n) == n % d = 0
PatchDivisibleBy(d) == Divides(d, args.patch_size[1]) /\ Divides(d, args.patch_size[2])
SamePlane(a, b) == a.h = b.h /\ a.w = b.w

\* ---------------------------------------------------------------- claim C1
\* C1: build_generator_model calls build_unet with n_levels 7 for 'unet_128'
\* and 8 for 'unet_256', build_resnet with n_blocks 6 for 'resnet_6blocks'
\* and 9 for 'resnet_9blocks', passing patch_size, input_nc, output_nc,
\* init_num_filters, norm_layer and use_dropout on unchanged; any other name
\* raises NotImplementedError with nothing built.
C1_Forwarded ==
    LET c == result.callee
    IN  /\ c.patch_size = args.patch_size
        /\ c.input_nc = args.input_nc
        /\ c.output_nc = args.output_nc
        /\ c.init_num_filters = args.init_num_filters
        /\ c.norm_layer = args.norm_layer
        /\ c.use_dropout = args.use_dropout
        /\ result.layers # <<>> =>
              result.layers[1].out = [h |-> args.patch_size[1],
                                      w |-> args.patch_size[2],
                                      c |-> args.input_nc]
        /\ ReturnedModel => result.output.c = args.output_nc

C1_Expected(model_name) ==
    IF model_name = "unet_128" THEN <<"build_unet", 7, 0>>
    ELSE IF model_name = "unet_256" THEN <<"build_unet", 8, 0>>
    ELSE IF model_name = "resnet_6blocks" THEN <<"build_resnet", 0, 6>>
    ELSE IF model_name = "resnet_9blocks" THEN <<"build_resnet", 0, 9>>
    ELSE <<"", 0, 0>>

C1_GeneratorDispatch ==
    (Done /\ fn = "build_generator_model") =>
        LET c == result.callee
            e == C1_Expected(args.model_name)
        IN  IF e[1] = ""
            THEN /\ result.outcome = "raise"
                 /\ result.value = "NotImplementedError"
                 /\ result.layers = <<>>
                 /\ c = NoCall
            ELSE /\ <<c.fn, c.n_levels, c.n_blocks>> = e
                 /\ C1_Forwarded
                 /\ (ReturnedModel /\ e[1] = "build_unet") =>
                        Count(result.layers, IsSkipNode) = e[2] - 1
                 /\ (ReturnedModel /\ e[1] = "build_resnet") =>
                        Count(result.layers, IsAdd) = e[3]

C1_Witness ==
    /\ Done /\ fn = "build_generator_model"
    /\ args.model_name = "resnet_9blocks"
    /\ ReturnedModel
    /\ result.callee.n_blocks = 9

\* ---------------------------------------------------------------- claim C2
\* C2: a construction function that returns normally returns a model; a
\* failure to build is an exception, never a returned value of another kind.
C2_ReturnsModel ==
    (Done /\ fn \in Constructors /\ result.outcome = "return") =>
        result.value = "Model"

\* ---------------------------------------------------------------- claim C3
\* C3: between the input and the bottleneck build_unet applies exactly
\* n_levels stride-2 convolutions, so a patch of side 2^n_levels is 1x1 at
\* the bottleneck.
C3_Bottleneck == Indices(result.layers, IsBottleneck)

C3_UnetDownsamplings ==
    (Done /\ IsUnet /\ LevelsUsed >= 2 /\ C3_Bottleneck # {}) =>
        \A b \in C3_Bottleneck :
            /\ Cardinality({i \in 1..b : IsDown(result.layers[i])}) = LevelsUsed
            /\ result.layers[b].out.h =
                   CeilDiv(args.patch_size[1], Pow2(LevelsUsed))
            /\ result.layers[b].out.w =
                   CeilDiv(args.patch_size[2], Pow2(LevelsUsed))
            /\ args.patch_size = <<Pow2(LevelsUsed), Pow2(LevelsUsed)>> =>
                   /\ result.layers[b].out.h = 1
                   /\ result.layers[b].out.w = 1

C3_Witness ==
    /\ Done /\ IsUnet /\ LevelsUsed = 7
    /\ args.patch_size = <<128, 128>>
    /\ \E b \in C3_Bottleneck :
          /\ result.layers[b].out.h = 1
          /\ result.layers[b].out.w = 1

\* ---------------------------------------------------------------- claim C4
\* C4: the model build_unet returns maps a patch whose sides are multiples
\* of 2^n_levels to an output of the same spatial size with output_nc
\* channels; the decoder upsamples as many times as the encoder downsamples.
C4_UnetImageToImage ==
    (Done /\ IsUnet /\ LevelsUsed >= 2 /\ ReturnedModel
          /\ PatchDivisibleBy(Pow2(LevelsUsed))) =>
        /\ result.output = [h |-> args.patch_size[1], w |-> args.patch_size[2],
                            c |-> args.output_nc]
        /\ Count(result.layers, IsUp) = LevelsUsed

\* ---------------------------------------------------------------- claim C5
\* C5: the model build_resnet returns has two stride-2 downsamplings and two
\* stride-2 transposed-convolution upsamplings whatever n_blocks is, so a
\* patch with sides multiples of 4 comes out with the same spatial size and
\* output_nc channels.
C5_ResnetImageToImage ==
    (Done /\ IsResnet /\ ReturnedModel /\ PatchDivisibleBy(4)) =>
        /\ Count(result.layers, IsDown) = n_downsamples
        /\ Count(result.layers, IsUp) = n_downsamples
        /\ result.output = [h |-> args.patch_size[1], w |-> args.patch_size[2],
                            c |-> args.output_nc]

\* ---------------------------------------------------------------- claim C6
\* C6: for n_layers 0, -1 and >= 1 the last layer of the returned
\* discriminator is a convolution with one output channel, with activation
\* 'sigmoid' when use_sigmoid is set and none otherwise.
C6_DiscriminatorHead ==
    (Done /\ fn \in Discriminators /\ args.n_layers >= -1 /\ ReturnedModel) =>
        LET last == result.layers[Len(result.layers)]
        IN  /\ last.layer = "Conv2D"
            /\ last.filters = 1
            /\ last.out.c = 1
            /\ last.activation = IF args.use_sigmoid THEN "sigmoid" ELSE "None"

\* ---------------------------------------------------------------- claim C7
\* C7: get_norm_layer returns BatchNormalization for 'batch', returns
\* InstanceNormalization for 'instance' (ImportError without keras_contrib),
\* and raises NotImplementedError for any other name, so a builder given an
\* unknown norm_layer stops with NotImplementedError before adding a layer.
C7_BuilderReached ==
    \/ fn \in {"build_unet", "build_resnet"} \cup Discriminators
    \/ fn = "build_generator_model" /\ result.callee # NoCall

C7_UnknownNormRaises ==
    /\ (Done /\ fn = "get_norm_layer") =>
          IF args.norm_layer = "batch"
          THEN result.outcome = "return" /\ result.value = "BatchNormalization"
          ELSE IF args.norm_layer = "instance"
          THEN IF args.contrib
               THEN /\ result.outcome = "return"
                    /\ result.value = "InstanceNormalization"
               ELSE result.outcome = "raise" /\ result.value = "ImportError"
          ELSE result.outcome = "raise" /\ result.value = "NotImplementedError"
    /\ (Done /\ C7_BuilderReached /\ args.norm_layer \notin {"batch", "instance"}) =>
          /\ result.outcome = "raise"
          /\ result.value = "NotImplementedError"
          /\ result.layers = <<>>

\* ---------------------------------------------------------------- claim C8
\* C8: with autoencoder=False every decoder level of build_unet is
\* concatenated with the encoder node of its level, of the same spatial
\* size, and in every residual block of build_resnet the two operands of Add
\* have the same shape.  (Read with patches whose sides are multiples of
\* 2^n_levels, where the encoder and decoder sizes can agree at all.)
C8_SkipNodes == Indices(result.layers, IsSkipNode)

C8_MergesCompatible ==
    /\ (Done /\ fn = "build_unet" /\ ~args.autoencoder /\ args.n_levels >= 2
             /\ NormAvailable /\ PatchDivisibleBy(Pow2(args.n_levels))) =>
          /\ Count(result.layers, IsConcat) = args.n_levels - 1
          /\ \A k \in C8_SkipNodes :
                \E j \in Indices(result.layers, IsConcat) :
                    /\ result.layers[j].inp2 = result.layers[k].out
                    /\ SamePlane(result.layers[j].inp, result.layers[j].inp2)
    /\ (Done /\ IsResnet) =>
          \A j \in Indices(result.layers, IsAdd) :
              result.layers[j].inp = result.layers[j].inp2

\* ---------------------------------------------------------------- claim C9
\* C9: use_dropout only adds Dropout layers: one applied to the activation
\* between the two convolutions of every residual block, one after the
\* normalization of every inner level of build_unet and of
\* build_nlayer_discriminator; without it there is none; the other layers
\* are the same either way and the builder returns a model.
C9_Builds ==
    \/ IsResnet /\ PaddingUsed = "zero"
    \/ IsUnet /\ AutoencoderUsed /\ LevelsUsed >= 2
    \/ fn = "build_nlayer_discriminator" /\ args.n_layers >= 1

C9_ExpectedDropouts ==
    IF IsResnet THEN BlocksUsed
    ELSE IF IsUnet THEN LevelsUsed - 2
    ELSE args.n_layers - 1

C9_DropoutPlace(i) ==
    LET before == result.layers[i - 1]
    IN  IF IsResnet THEN before.line = 165 /\ before.layer = "Activation"
        ELSE IF IsUnet THEN before.line = 92
        ELSE before.line = 213

C9_WithoutDropout ==
    IF fn = "build_resnet"
    THEN build_resnet(args.patch_size, args.input_nc, args.output_nc,
                      args.init_num_filters, args.norm_layer,
                      args.padding_layer, args.n_blocks, FALSE,
                      DefaultDropoutRate, args.fmt, args.contrib)
    ELSE IF fn = "build_unet"
    THEN build_unet(args.patch_size, args.input_nc, args.output_nc,
                    args.init_num_filters, args.norm_layer, args.n_levels,
                    FALSE, DefaultDropoutRate, args.autoencoder, args.fmt,
                    args.contrib)
    ELSE IF fn = "build_generator_model"
    THEN build_generator_model(args.patch_size, args.input_nc, args.output_nc,
                               args.init_num_filters, args.model_name,
                               args.norm_layer, FALSE, args.fmt, args.contrib)
    ELSE build_nlayer_discriminator(args.patch_size, args.input_nc,
                                    args.init_num_filters, args.n_layers,
                                    args.norm_layer, args.use_sigmoid, FALSE,
                                    DefaultDropoutRate, args.fmt, args.contrib)

NotDropout(l) == ~IsDropout(l)

C9_DropoutOnlyAddsDropout ==
    (Done /\ C9_Builds /\ NormAvailable) =>
        /\ ReturnedModel
        /\ Count(result.layers, IsDropout) =
               IF args.use_dropout THEN C9_ExpectedDropouts ELSE 0
        /\ \A i \in Indices(result.layers, IsDropout) :
               /\ C9_DropoutPlace(i)
               /\ result.layers[i].rate = DefaultDropoutRate
               /\ result.layers[i].inp = result.layers[i - 1].out
        /\ SelectSeq(result.layers, NotDropout) = C9_WithoutDropout.layers

====
